---------------------------- MODULE Spec2Model ----------------------------
(***************************************************************************)
(* A model of haproxy-layer7-disk-check (src/main.go).                     *)
(*                                                                         *)
(* One process made of goroutines: the StateMonitor loop (ticker + updates *)
(* channel, owner of the diskStatus table), the HTTP handler goroutines    *)
(* (one per request in flight), the Poller workers, main's seeding         *)
(* goroutine, main's range over complete, and one Sleep goroutine per      *)
(* completed poll.  The three channels are unbuffered (make(chan T)), so   *)
(* every send is a rendezvous: one action moves the sender and the         *)
(* receiver together.  log.Fatal is os.Exit(1): it ends every goroutine.   *)
(*                                                                         *)
(* Strings the code cuts up (the output of du) and builds (the response    *)
(* bodies) are sequences of tokens: one-character strings, with a path or  *)
(* a fixed piece of message text as a single token.  Durations are in      *)
(* seconds.  Byte counts are bounded by MaxBytes, far below 2^64, so the   *)
(* range error of ParseUint is outside the model.                          *)
(***************************************************************************)
EXTENDS Integers, Sequences, FiniteSets, TLC

(***************************************************************************)
(* Bounds of the model.                                                    *)
(***************************************************************************)
\* The largest byte count du reports, and the largest threshold flag value.
MaxBytes == 3
\* How many times Poll runs in one behaviour.
MaxPolls == 2
\* How many HTTP requests are served at once.
NumHandlers == 2
\* How many Measurement Events an arbitrary sender hands to the State Store.
MaxEvents == 2
\* How many Poller workers main starts when numPollers is taken as a
\* parameter.
MaxWorkers == 2
\* The largest errCount of a Path handed to Poll and Sleep taken as methods.
MaxErrCount == 2

(***************************************************************************)
(* Program constants (src/main.go, const block).                           *)
(***************************************************************************)
numPollers == 1
pollInterval == 60
errTimeout == 10

\* The paths a State may name, and the value of the -path flag (its default).
Paths == {"/mnt/storage", "/srv"}
ConfigPaths == {"/mnt/storage"}
ByteVals == 0..MaxBytes
\* The values of the -threshold flag: no room at all, and one that byte
\* counts fall below, meet and exceed.
Thresholds == {0, MaxBytes - 1}
Handlers == 1..NumHandlers
Pollers == 1..numPollers
\* The *Path values main creates: one, for the configured path.
TaskIds == {1}

VARIABLES
    running,    \* the process is alive (no log.Fatal yet)
    path,       \* *path, the -path flag
    threshold,  \* *threshold, the -threshold flag
    override,   \* *override, the -override flag
    threshold0, \* *threshold before flag.Parse: the flag's default, as digits
    initErr,    \* the errCount the Path was made with
    state,      \* diskStatus.state: a map, its domain the keys present
    rw,         \* diskStatus.RWMutex
    mon,        \* the StateMonitor loop: its position and the State it holds
    logged,     \* what the running call of logState has printed
    http,       \* the HTTP goroutine: "starting" or "serving"
    handler,    \* the handler goroutines: position, local bytes, response
    seed,       \* main's seeding goroutine: "send" or "done"
    tasks,      \* the Path structs, by pointer
    poller,     \* the Poller workers: position, the *Path held, bytes
    sleepers,   \* the Sleep goroutines main spawned
    received,   \* history: the States the StateMonitor loop received
    measured,   \* history: the byte counts du printed for the successful polls
    polls,      \* history: how many polls returned
    served,     \* history: the last response sent since the table last changed
    failedPolls,\* history: how many polls failed
    consecFails \* history: per task, its failures since its last success

vars == <<running, path, threshold, override, threshold0, initErr, state, rw, mon, logged, http,
          handler, seed, tasks, poller, sleepers, received, measured, polls,
          served, failedPolls, consecFails>>

cfgVars == <<path, threshold, override, threshold0, initErr>>
storeVars == <<state, rw, mon, logged, received, served>>
pipeVars == <<seed, tasks, poller, sleepers, measured, polls, failedPolls,
              consecFails>>

(***************************************************************************)
(* Values.                                                                 *)
(***************************************************************************)
\* type State struct { path string; bytes uint64 }
State(p, b) == [path |-> p, bytes |-> b]
NoState == [path |-> "", bytes |-> 0]
NoTask == 0
NoResp == [status |-> 0, body |-> <<>>]

StatusOK == 200
StatusInternalServerError == 500
StatusServiceUnavailable == 503

\* A Go map read: the zero value when the key is absent.
MapGet(m, k) == IF k \in DOMAIN m THEN m[k] ELSE 0
\* A Go map write: the key is added when absent.
MapSet(m, k, v) == [x \in DOMAIN m \cup {k} |-> IF x = k THEN v ELSE m[x]]


(***************************************************************************)
(* Text: formatting and parsing of unsigned numbers, and the cuts Poll     *)
(* makes in the output of du.                                              *)
(***************************************************************************)
DigitChars == <<"0", "1", "2", "3", "4", "5", "6", "7", "8", "9">>
IsDigit(c) == \E i \in 1..10 : DigitChars[i] = c
DigitVal(c) == (CHOOSE i \in 1..10 : DigitChars[i] = c) - 1

\* fmt's %v of a uint64: its decimal digits, most significant first.
RECURSIVE FormatUint(_)
FormatUint(n) ==
    IF n < 10 THEN <<DigitChars[n + 1]>>
    ELSE FormatUint(n \div 10) \o <<DigitChars[(n % 10) + 1]>>

\* fmt's %v of a bool.
FormatBool(b) == IF b THEN "true" ELSE "false"

IsSpace(c) == c \in {" ", "\t", "\n", "\r"}

\* strings.TrimSpace: leading and trailing white space removed.
RECURSIVE TrimLeft(_)
TrimLeft(s) ==
    IF s # <<>> /\ IsSpace(Head(s)) THEN TrimLeft(Tail(s)) ELSE s
RECURSIVE TrimRight(_)
TrimRight(s) ==
    IF s # <<>> /\ IsSpace(s[Len(s)])
    THEN TrimRight(SubSeq(s, 1, Len(s) - 1))
    ELSE s
TrimSpace(s) == TrimRight(TrimLeft(s))

\* strings.Split(s, "\t")[0]: s up to its first tab, all of s without one.
RECURSIVE FirstField(_)
FirstField(s) ==
    IF s = <<>> \/ Head(s) = "\t" THEN <<>>
    ELSE <<Head(s)>> \o FirstField(Tail(s))

\* The value of a digit string in a base, most significant digit first.
RECURSIVE ValueIn(_, _)
ValueIn(base, s) ==
    IF s = <<>> THEN 0
    ELSE ValueIn(base, SubSeq(s, 1, Len(s) - 1)) * base + DigitVal(s[Len(s)])

\* strconv.ParseUint(s, 0, 64) on strings of the model's alphabet (digits,
\* white space, path and message tokens): base 0 reads a leading "0" as the
\* octal prefix; an empty string, a character that is no digit, and an 8 or
\* 9 in an octal number are syntax errors, which return 0 with the error.
ParseUint(s) ==
    IF s = <<>> \/ \E i \in 1..Len(s) : ~IsDigit(s[i])
    THEN [err |-> TRUE, val |-> 0]
    ELSE IF Len(s) > 1 /\ s[1] = "0"
    THEN IF \E i \in 2..Len(s) : DigitVal(s[i]) >= 8
         THEN [err |-> TRUE, val |-> 0]
         ELSE [err |-> FALSE, val |-> ValueIn(8, Tail(s))]
    ELSE [err |-> FALSE, val |-> ValueIn(10, s)]

\* A Go floating-point constant, which is exact: m * 10^e.  1.074 is
\* Dec(1074, -3), and 10E11 is ten times 10^11, Dec(10, 11).
Dec(m, e) == [m |-> m, e |-> e]
DecMul(a, b) == Dec(a.m * b.m, a.e + b.e)
RECURSIVE Zeros(_)
Zeros(n) == IF n = 0 THEN <<>> ELSE <<"0">> \o Zeros(n - 1)
\* uint64(c) of a constant whose value is a whole number: its digits.
DecUint(c) == FormatUint(c.m) \o Zeros(c.e)
\* The default of the -threshold flag: uint64(1.074*10E11), as digits (the
\* value is beyond the model's numbers).
thresholdDefault == DecUint(DecMul(Dec(1074, -3), Dec(10, 11)))

\* What exec.Command("du", "-sbx", p).Output() returns: the bytes and the
\* path on one line when du succeeds, an error when it cannot run or exits
\* non-zero, and (a du that is not GNU du, a wrapper) output that is no
\* number.
DuLine(p, b) == FormatUint(b) \o <<"\t", p, "\n">>
\* n is the byte count du printed, kept for the history.
DuResults(p) ==
    {[err |-> FALSE, out |-> DuLine(p, b), n |-> b] : b \in ByteVals}
    \cup {[err |-> FALSE, out |-> <<"0">> \o DuLine(p, 1), n |-> 1]}
    \cup {[err |-> FALSE, out |-> o, n |-> 0] : o \in {<<>>, <<"?", "\t", p, "\n">>}}
    \cup {[err |-> TRUE, out |-> <<>>, n |-> 0]}

(***************************************************************************)
(* The HTTP handler's answer (src/main.go, the func registered for "/").   *)
(***************************************************************************)
\* http.Error(w, msg, code): the status, and the message with a newline.
HttpError(msg, code) == [status |-> code, body |-> msg \o <<"\n">>]

Respond503 == HttpError(<<"Disk status not cached yet">>, StatusServiceUnavailable)
\* Respond500 with the threshold left out of the message.
Respond500_BytesOnly(bytes, thr) ==
    HttpError(<<"ERROR: Bytes exceed threshold (">> \o FormatUint(bytes) \o <<")">>,
              StatusInternalServerError)
Respond500(bytes, thr) ==
    HttpError(<<"ERROR: Bytes exceed threshold (">> \o FormatUint(bytes)
              \o <<"/">> \o FormatUint(thr) \o <<")">>,
              StatusInternalServerError)
Respond200(p, bytes, ovr) ==
    [status |-> StatusOK,
     body |-> <<"OK: ", p, " is ">> \o FormatUint(bytes)
              \o <<" bytes; override set to ", FormatBool(ovr), "\n">>]

\* Classify with the override flag looked at before the zero case.
Classify_OverrideFirst(bytes, p, thr, ovr) ==
    IF ovr THEN Respond200(p, bytes, ovr)
    ELSE IF bytes = 0 THEN Respond503
    ELSE IF bytes > thr THEN Respond500(bytes, thr)
    ELSE Respond200(p, bytes, ovr)

\* Classify with >= for >.
Classify_AtThreshold(bytes, p, thr, ovr) ==
    IF bytes = 0 THEN Respond503
    ELSE IF bytes >= thr /\ ovr = FALSE THEN Respond500(bytes, thr)
    ELSE Respond200(p, bytes, ovr)

\* The switch of the handler.
Classify(bytes, p, thr, ovr) ==
    IF bytes = 0 THEN Respond503
    ELSE IF bytes > thr /\ ovr = FALSE THEN Respond500(bytes, thr)
    ELSE Respond200(p, bytes, ovr)

\* Path.Sleep's argument to time.Sleep.
SleepDelay(errCount) == pollInterval + errTimeout * errCount


(***************************************************************************)
(* The state after flag.Parse, StateMonitor's construction and main's go   *)
(* statements: an empty table, a free lock, every goroutine at its start.  *)
(***************************************************************************)
InitStore ==
    /\ running = TRUE
    /\ path \in ConfigPaths
    /\ threshold \in Thresholds
    /\ override \in BOOLEAN
    /\ threshold0 = thresholdDefault
    /\ state = <<>>
    /\ rw = [readers |-> {}, writer |-> FALSE, pending |-> FALSE]
    /\ mon = [pc |-> "select", s |-> NoState]
    /\ logged = <<>>
    /\ http = "starting"
    /\ handler = [h \in Handlers |-> [pc |-> "idle", bytes |-> 0, resp |-> NoResp]]
    /\ received = <<>>
    /\ served = NoResp

\* main's go statements with W the Poller workers started, none of them
\* yet at its receive, and the Path made with an errCount of E (main makes
\* it with the zero value).
InitPipe(W, E) ==
    /\ initErr \in E
    /\ seed = "send"
    /\ tasks = [r \in TaskIds |-> [path |-> path, errCount |-> initErr]]
    /\ poller = [w \in W |-> [pc |-> "start", r |-> NoTask, bytes |-> 0]]
    /\ sleepers = {}
    /\ measured = <<>>
    /\ polls = 0
    /\ failedPolls = 0
    /\ consecFails = [r \in TaskIds |-> 0]

Init == InitStore /\ InitPipe(Pollers, {0})

(***************************************************************************)
(* sync.RWMutex as the code uses it.  Lock announces the writer, which     *)
(* holds back readers that arrive later, and then waits for the readers    *)
(* that hold the lock to leave.                                            *)
(***************************************************************************)
\* The goroutines that take the read lock.
HandlerId(h) == <<"handler", h>>
MonitorId == <<"monitor", 0>>
\* CanRLock of a lock that prefers readers: a waiting writer does not hold
\* new readers back.
CanRLock_ReaderPreference == ~rw.writer
CanRLock == ~rw.writer /\ ~rw.pending
RLock(g) == [rw EXCEPT !.readers = @ \cup {g}]
RUnlock(g) == [rw EXCEPT !.readers = @ \ {g}]
CanLock == rw.readers = {} /\ ~rw.writer

\* log.Fatal: the message is printed and os.Exit(1) ends the process.
Fatal == running' = FALSE

(***************************************************************************)
(* The HTTP goroutine and the handler (StateMonitor, second go func).      *)
(***************************************************************************)
\* http.ListenAndServe binds the address and serves.
ListenOk ==
    /\ running /\ http = "starting"
    /\ http' = "serving"
    /\ UNCHANGED <<running, cfgVars, storeVars, handler, pipeVars>>

\* http.ListenAndServe returns an error: log.Fatal.
ListenFail ==
    /\ running /\ http = "starting"
    /\ Fatal
    /\ UNCHANGED <<cfgVars, storeVars, http, handler, pipeVars>>

\* HandlerRLock that does not wait for the writer.
HandlerRLock_NoWait(h) ==
    /\ running /\ http = "serving"
    /\ handler[h].pc = "idle"
    /\ rw' = RLock(HandlerId(h))
    /\ handler' = [handler EXCEPT ![h].pc = "read"]
    /\ UNCHANGED <<running, cfgVars, state, mon, logged, received, served, http, pipeVars>>

\* A request arrives and its handler takes the read lock.
HandlerRLock(h) ==
    /\ running /\ http = "serving"
    /\ handler[h].pc = "idle"
    /\ CanRLock
    /\ rw' = RLock(HandlerId(h))
    /\ handler' = [handler EXCEPT ![h].pc = "read"]
    /\ UNCHANGED <<running, cfgVars, state, mon, logged, received, served, http, pipeVars>>

\* HandlerServe with the goroutine's number added to the response.
HandlerServe_Stamped(h) ==
    /\ running
    /\ handler[h].pc = "read"
    /\ LET bytes == MapGet(state, path)
           resp == Classify(bytes, path, threshold, override)
       IN  handler' = [handler EXCEPT
                         ![h].pc = "return",
                         ![h].bytes = bytes,
                         ![h].resp = [resp EXCEPT !.body = @ \o FormatUint(h)]]
    /\ UNCHANGED <<running, cfgVars, storeVars, http, pipeVars>>

\* bytes := diskStatus.state[*path], then the switch writes the response.
\* Both happen under the read lock and touch only the handler's locals.
HandlerServe(h) ==
    /\ running
    /\ handler[h].pc = "read"
    /\ LET bytes == MapGet(state, path)
       IN  handler' = [handler EXCEPT
                         ![h].pc = "return",
                         ![h].bytes = bytes,
                         ![h].resp = Classify(bytes, path, threshold, override)]
    /\ UNCHANGED <<running, cfgVars, storeVars, http, pipeVars>>

\* The handler returns: the deferred RUnlock runs and the response is sent.
HandlerRUnlock(h) ==
    /\ running
    /\ handler[h].pc = "return"
    /\ rw' = RUnlock(HandlerId(h))
    /\ handler' = [handler EXCEPT ![h] = [pc |-> "idle", bytes |-> 0, resp |-> NoResp]]
    /\ served' = handler[h].resp
    /\ UNCHANGED <<running, cfgVars, state, mon, logged, received, http, pipeVars>>

(***************************************************************************)
(* The StateMonitor loop (first go func) and logState.                     *)
(***************************************************************************)
\* case <-ticker.C: logState is called.
MonitorTick ==
    /\ running
    /\ mon.pc = "select"
    /\ mon' = [mon EXCEPT !.pc = "logState"]
    /\ UNCHANGED <<running, cfgVars, state, rw, logged, received, served, http, handler, pipeVars>>

\* logState: log.Println("Current state:"), then ds.RLock().
LogStateRLock ==
    /\ running
    /\ mon.pc = "logState"
    /\ CanRLock
    /\ rw' = RLock(MonitorId)
    /\ mon' = [mon EXCEPT !.pc = "range"]
    /\ UNCHANGED <<running, cfgVars, state, logged, received, served, http, handler, pipeVars>>

\* LogStateRange that empties the map once it has printed it.
LogStateRange_Clears ==
    /\ running
    /\ mon.pc = "range"
    /\ logged' = state
    /\ state' = <<>>
    /\ mon' = [mon EXCEPT !.pc = "logReturn"]
    /\ UNCHANGED <<running, cfgVars, rw, received, served, http, handler, pipeVars>>

\* logState: the range over ds.state prints every key and value.
LogStateRange ==
    /\ running
    /\ mon.pc = "range"
    /\ logged' = state
    /\ mon' = [mon EXCEPT !.pc = "logReturn"]
    /\ UNCHANGED <<running, cfgVars, state, rw, received, served, http, handler, pipeVars>>

\* logState returns: the deferred RUnlock runs.
LogStateRUnlock ==
    /\ running
    /\ mon.pc = "logReturn"
    /\ rw' = RUnlock(MonitorId)
    /\ mon' = [mon EXCEPT !.pc = "select"]
    /\ logged' = <<>>
    /\ UNCHANGED <<running, cfgVars, state, received, served, http, handler, pipeVars>>

\* case s := <-updates: the loop's half of the rendezvous on updates.
MonitorRecv(s) ==
    /\ mon.pc = "select"
    /\ mon' = [pc |-> "lock", s |-> s]
    /\ received' = Append(received, s)

\* diskStatus.Lock() is called: the writer is announced.
MonitorLock ==
    /\ running
    /\ mon.pc = "lock"
    /\ rw' = [rw EXCEPT !.pending = TRUE]
    /\ mon' = [mon EXCEPT !.pc = "lockWait"]
    /\ UNCHANGED <<running, cfgVars, state, logged, received, served, http, handler, pipeVars>>

\* diskStatus.Lock() returns: no reader is left, the write lock is held.
MonitorLockAcquire ==
    /\ running
    /\ mon.pc = "lockWait"
    /\ CanLock
    /\ rw' = [rw EXCEPT !.pending = FALSE, !.writer = TRUE]
    /\ mon' = [mon EXCEPT !.pc = "write"]
    /\ UNCHANGED <<running, cfgVars, state, logged, received, served, http, handler, pipeVars>>

\* MonitorWrite with the write skipped for a key the map already holds.
MonitorWrite_KeepFirst ==
    /\ running
    /\ mon.pc = "write"
    /\ state' = IF mon.s.path \in DOMAIN state THEN state
                ELSE MapSet(state, mon.s.path, mon.s.bytes)
    /\ mon' = [mon EXCEPT !.pc = "unlock"]
    /\ served' = (IF state' = state THEN served ELSE NoResp)
    /\ UNCHANGED <<running, cfgVars, rw, logged, received, http, handler, pipeVars>>

\* diskStatus.state[s.path] = s.bytes
MonitorWrite ==
    /\ running
    /\ mon.pc = "write"
    /\ state' = MapSet(state, mon.s.path, mon.s.bytes)
    /\ mon' = [mon EXCEPT !.pc = "unlock"]
    /\ served' = (IF state' = state THEN served ELSE NoResp)
    /\ UNCHANGED <<running, cfgVars, rw, logged, received, http, handler, pipeVars>>

\* diskStatus.Unlock(), and back to the select.
MonitorUnlock ==
    /\ running
    /\ mon.pc = "unlock"
    /\ rw' = [rw EXCEPT !.writer = FALSE]
    /\ mon' = [pc |-> "select", s |-> NoState]
    /\ UNCHANGED <<running, cfgVars, state, logged, received, served, http, handler, pipeVars>>


(***************************************************************************)
(* Path.Poll, Path.Sleep, Poller and main.                                 *)
(***************************************************************************)
\* go Poller(pending, complete, status): the goroutine runs and reaches its
\* receive on pending.
PollerStart(w) ==
    /\ running
    /\ poller[w].pc = "start"
    /\ poller' = [poller EXCEPT ![w].pc = "recv"]
    /\ UNCHANGED <<running, cfgVars, storeVars, http, handler, seed, tasks, sleepers,
                   measured, polls, failedPolls, consecFails>>

\* SeedSend on a buffered channel: the send returns with no Poller at its
\* receive.
SeedSend_Buffered(w) ==
    /\ running
    /\ seed = "send"
    /\ seed' = "done"
    /\ UNCHANGED <<running, cfgVars, storeVars, http, handler, tasks, poller,
                   sleepers, measured, polls, failedPolls, consecFails>>

\* go func() { pending <- &Path{path: *path} }() meets a Poller's receive.
SeedSend(w) ==
    /\ running
    /\ seed = "send"
    /\ poller[w].pc = "recv"
    /\ seed' = "done"
    /\ poller' = [poller EXCEPT ![w] = [pc |-> "poll", r |-> 1, bytes |-> 0]]
    /\ UNCHANGED <<running, cfgVars, storeVars, http, handler, tasks, sleepers,
                   measured, polls, failedPolls, consecFails>>

\* PollFailed with the error only logged: Poll goes on to its last lines
\* and returns the zero that ParseUint gave.
PollFailed_LogsOnly(w) ==
    /\ failedPolls' = failedPolls + 1
    /\ consecFails' = [consecFails EXCEPT ![poller[w].r] = @ + 1]
    /\ tasks' = [tasks EXCEPT ![poller[w].r].errCount = 0]
    /\ poller' = [poller EXCEPT ![w].pc = "status", ![w].bytes = 0]
    /\ UNCHANGED <<running, received, mon>>

\* Poll's error branches: log.Fatal(err); the r.errCount++ after it never
\* runs, and neither does the rest of Poll.
PollFailed(w) ==
    /\ Fatal
    /\ failedPolls' = failedPolls + 1
    /\ consecFails' = [consecFails EXCEPT ![poller[w].r] = @ + 1]
    /\ UNCHANGED <<tasks, poller, received, mon>>

\* PollReturned without r.errCount = 0.
PollReturned_KeepsCount(w, bytes) ==
    /\ poller' = [poller EXCEPT ![w].pc = "status", ![w].bytes = bytes]
    /\ consecFails' = [consecFails EXCEPT ![poller[w].r] = 0]
    /\ UNCHANGED <<running, failedPolls, received, mon, tasks>>

\* Poll's last lines: r.errCount = 0; return bytes.
PollReturned(w, bytes) ==
    /\ tasks' = [tasks EXCEPT ![poller[w].r].errCount = 0]
    /\ poller' = [poller EXCEPT ![w].pc = "status", ![w].bytes = bytes]
    /\ consecFails' = [consecFails EXCEPT ![poller[w].r] = 0]
    /\ UNCHANGED <<running, failedPolls, received, mon>>

\* bytes := r.Poll(): du runs and returns, its output is cut and parsed.
Poll(w) ==
    /\ running
    /\ poller[w].pc = "poll"
    /\ polls < MaxPolls
    /\ polls' = polls + 1
    /\ \E res \in DuResults(tasks[poller[w].r].path) :
         LET s == TrimSpace(res.out)
             bytesStr == FirstField(s)
             parsed == ParseUint(bytesStr)
         IN  /\ IF res.err THEN PollFailed(w)
                ELSE IF parsed.err THEN PollFailed(w)
                ELSE PollReturned(w, parsed.val)
             /\ measured' = IF res.err \/ parsed.err THEN measured
                            ELSE Append(measured, res.n)
    /\ UNCHANGED <<cfgVars, state, rw, logged, served, http, handler, seed, sleepers>>

\* SendStatus on a buffered channel: the Poller goes on before the loop has
\* received the State.
SendStatus_NoWait(w) ==
    /\ running
    /\ poller[w].pc = "status"
    /\ poller' = [poller EXCEPT ![w].pc = "complete"]
    /\ UNCHANGED <<running, cfgVars, storeVars, http, handler, seed, tasks,
                   sleepers, measured, polls, failedPolls, consecFails>>

\* status <- State{r.path, bytes} meets the StateMonitor loop's receive.
SendStatus(w) ==
    /\ running
    /\ poller[w].pc = "status"
    /\ MonitorRecv(State(tasks[poller[w].r].path, poller[w].bytes))
    /\ poller' = [poller EXCEPT ![w].pc = "complete"]
    /\ UNCHANGED <<running, cfgVars, state, rw, logged, served, http, handler, seed, tasks,
                   sleepers, measured, polls, failedPolls, consecFails>>

\* out <- r meets main's range over complete, which runs go r.Sleep(pending).
SendComplete(w) ==
    /\ running
    /\ poller[w].pc = "complete"
    /\ sleepers' = sleepers \cup {[r |-> poller[w].r, pc |-> "start", delay |-> 0]}
    /\ poller' = [poller EXCEPT ![w] = [pc |-> "recv", r |-> NoTask, bytes |-> 0]]
    /\ UNCHANGED <<running, cfgVars, storeVars, http, handler, seed, tasks,
                   measured, polls, failedPolls, consecFails>>

\* Sleep: time.Sleep(pollInterval + errTimeout*time.Duration(r.errCount))
\* is called.
SleepStart(sl) ==
    /\ running
    /\ sl.pc = "start"
    /\ sleepers' = (sleepers \ {sl})
          \cup {[sl EXCEPT !.pc = "sleeping",
                           !.delay = SleepDelay(tasks[sl.r].errCount)]}
    /\ UNCHANGED <<running, cfgVars, storeVars, http, handler, seed, tasks, poller,
                   measured, polls, failedPolls, consecFails>>

\* Sleep: time.Sleep returns.
SleepWake(sl) ==
    /\ running
    /\ sl.pc = "sleeping"
    /\ sleepers' = (sleepers \ {sl}) \cup {[sl EXCEPT !.pc = "send"]}
    /\ UNCHANGED <<running, cfgVars, storeVars, http, handler, seed, tasks, poller,
                   measured, polls, failedPolls, consecFails>>

\* SleepSend in a loop: the goroutine sends the Path and stays to send it
\* again.
SleepSend_Resends(sl, w) ==
    /\ running
    /\ sl.pc = "send"
    /\ poller[w].pc = "recv"
    /\ poller' = [poller EXCEPT ![w] = [pc |-> "poll", r |-> sl.r, bytes |-> 0]]
    /\ UNCHANGED <<running, cfgVars, storeVars, http, handler, seed, tasks,
                   sleepers, measured, polls, failedPolls, consecFails>>

\* Sleep: done <- r meets a Poller's receive; the goroutine ends.
SleepSend(sl, w) ==
    /\ running
    /\ sl.pc = "send"
    /\ poller[w].pc = "recv"
    /\ sleepers' = sleepers \ {sl}
    /\ poller' = [poller EXCEPT ![w] = [pc |-> "poll", r |-> sl.r, bytes |-> 0]]
    /\ UNCHANGED <<running, cfgVars, storeVars, http, handler, seed, tasks,
                   measured, polls, failedPolls, consecFails>>

\* A sender other than the Poller hands a State to the channel StateMonitor
\* returned.
EnvSend(s) ==
    /\ running
    /\ Len(received) < MaxEvents
    /\ MonitorRecv(s)
    /\ UNCHANGED <<running, cfgVars, state, rw, logged, served, http, handler, pipeVars>>

(***************************************************************************)
(* The specifications.                                                     *)
(***************************************************************************)
HttpStep ==
    \/ ListenOk
    \/ ListenFail
    \/ \E h \in Handlers : HandlerRLock(h)
    \/ \E h \in Handlers : HandlerServe(h)
    \/ \E h \in Handlers : HandlerRUnlock(h)

MonitorStep ==
    \/ MonitorTick
    \/ LogStateRLock
    \/ LogStateRange
    \/ LogStateRUnlock
    \/ MonitorLock
    \/ MonitorLockAcquire
    \/ MonitorWrite
    \/ MonitorUnlock

\* The workers are those main started.
Workers == DOMAIN poller

PipeStep ==
    \/ \E w \in Workers : PollerStart(w)
    \/ \E w \in Workers : SeedSend(w)
    \/ \E w \in Workers : Poll(w)
    \/ \E w \in Workers : SendStatus(w)
    \/ \E w \in Workers : SendComplete(w)
    \/ \E sl \in sleepers : SleepStart(sl)
    \/ \E sl \in sleepers : SleepWake(sl)
    \/ \E sl \in sleepers, w \in Workers : SleepSend(sl, w)

\* The whole program.
Next == HttpStep \/ MonitorStep \/ PipeStep
Spec == Init /\ [][Next]_vars

\* The State Store and the endpoint alone, with an arbitrary sender on the
\* updates channel in the Poller's place.
NextStore ==
    \/ HttpStep
    \/ MonitorStep
    \/ \E p \in Paths, b \in ByteVals : EnvSend(State(p, b))
StoreSpec == Init /\ [][NextStore]_vars

\* The scheduler runs every goroutine that can take a step: the
\* StateMonitor loop, a handler that holds the read lock, the Pollers, the
\* seeding goroutine and the Sleep goroutines; du returns; a request may
\* never arrive.  The select of the loop chooses among its ready cases at
\* random, so a Poller that waits at its send on updates while the loop
\* comes back to the select again and again is served in the end.
FairMonitor == WF_vars(MonitorStep)
FairHandlers ==
    \A h \in Handlers : WF_vars(HandlerServe(h)) /\ WF_vars(HandlerRUnlock(h))
FairPoll == \A w \in Pollers : WF_vars(Poll(w))
FairHandOver ==
    /\ \A w \in Pollers :
          /\ WF_vars(PollerStart(w))
          /\ WF_vars(SeedSend(w))
          /\ SF_vars(SendStatus(w))
          /\ WF_vars(SendComplete(w))
    /\ WF_vars(\E sl \in sleepers : SleepStart(sl))
    /\ WF_vars(\E sl \in sleepers : SleepWake(sl))
    /\ WF_vars(\E sl \in sleepers, w \in Workers : SleepSend(sl, w))
FairSpec == Spec /\ FairMonitor /\ FairHandlers /\ FairHandOver /\ FairPoll

\* The same scheduler with a du that may never return: Output() has no
\* timeout, so nothing obliges Poll to come to its end.
StallSpec == Spec /\ FairMonitor /\ FairHandlers /\ FairHandOver

\* The State Store and the endpoint under the same scheduler, with requests
\* and States arriving at any time or never.
FairStoreSpec == StoreSpec /\ FairMonitor /\ FairHandlers

\* Poll and Sleep as methods of any Path: the pipeline run on a Path whose
\* errCount is any number up to MaxErrCount when it is first polled.
InitTask == InitStore /\ InitPipe(Pollers, 0..MaxErrCount)
NextTask == MonitorStep \/ PipeStep
TaskSpec == InitTask /\ [][NextTask]_vars

\* The pipeline with numPollers a parameter: main's loop starts any number
\* of workers from 1 to MaxWorkers.  The steps are those of the goroutines
\* that share the channels pending, complete and updates: the seeding
\* goroutine, the Pollers, the Sleep goroutines and the StateMonitor loop.
InitPool == InitStore /\ \E n \in 1..MaxWorkers : InitPipe(1..n, {0})
NextPool == MonitorStep \/ PipeStep
PoolSpec == InitPool /\ [][NextPool]_vars


(***************************************************************************)
(* The claims.                                                             *)
(***************************************************************************)
\* The States the loop has received and finished writing: all of them but
\* the one it holds while it has not yet written it.
Applied ==
    IF mon.pc \in {"lock", "lockWait", "write"}
    THEN SubSeq(received, 1, Len(received) - 1)
    ELSE received
\* The positions in a sequence of States that name path p.
Naming(evs, p) == {i \in 1..Len(evs) : evs[i].path = p}
\* The largest member of a non-empty set of numbers.
Latest(S) == CHOOSE i \in S : \A j \in S : j <= i

\* C1: whatever States the StateMonitor loop has received, the table maps
\* exactly the paths named by the States it has written so far, each to the
\* bytes of the latest such State for that path: none lost, none applied
\* twice, none out of receipt order.
C1_LastWriteWins ==
    \A p \in Paths :
        /\ p \in DOMAIN state <=> Naming(Applied, p) # {}
        /\ p \in DOMAIN state =>
               state[p] = Applied[Latest(Naming(Applied, p))].bytes

\* Two States for one path with different bytes were received and written,
\* and the table holds the second.
C1_Witness ==
    /\ mon.pc = "select"
    /\ Len(received) = 2
    /\ received[1].path = received[2].path
    /\ received[1].bytes # received[2].bytes
    /\ state[received[2].path] = received[2].bytes

\* C2: a failed poll never ends the process: after any failed poll the
\* process is still running.
C2_FailureKeepsRunning == failedPolls > 0 => running

\* The decimal numbers a body shows: the values of its maximal digit runs.
Numbers(body) ==
    {ValueIn(10, SubSeq(body, i, j)) :
        <<i, j>> \in {x \in (1..Len(body)) \X (1..Len(body)) :
            /\ x[1] <= x[2]
            /\ \A k \in x[1]..x[2] : IsDigit(body[k])
            /\ (x[1] = 1 \/ ~IsDigit(body[x[1] - 1]))
            /\ (x[2] = Len(body) \/ ~IsDigit(body[x[2] + 1]))}}
\* The tokens of a body.
Tokens(body) == {body[i] : i \in 1..Len(body)}
\* A handler that has written its response and not yet returned.
Answered(h) == handler[h].pc = "return"

\* C3: whenever the table has no entry for the configured path, or a zero
\* one, GET / answers 503 with the message "Disk status not cached yet"
\* (http.Error ends it with a newline), whatever threshold and override are.
C3_Unavailable ==
    \A h \in Handlers :
        Answered(h) /\ (path \notin DOMAIN state \/ state[path] = 0) =>
            /\ handler[h].resp.status = 503
            /\ handler[h].resp.body = <<"Disk status not cached yet", "\n">>

\* A zero entry is in the table, override is set, and the answer is 503.
C3_Witness ==
    \E h \in Handlers :
        /\ Answered(h)
        /\ path \in DOMAIN state /\ state[path] = 0
        /\ override /\ threshold = 0
        /\ handler[h].resp.status = 503

\* C4: whenever the cached bytes for the configured path are non-zero and
\* above the threshold and override is false, GET / answers 500 and the
\* body shows both the bytes and the threshold.
C4_OverThreshold ==
    \A h \in Handlers :
        (/\ Answered(h)
         /\ path \in DOMAIN state
         /\ state[path] # 0 /\ state[path] > threshold /\ ~override) =>
            /\ handler[h].resp.status = 500
            /\ {state[path], threshold} \subseteq Numbers(handler[h].resp.body)

\* The table holds threshold + 1 with override off, and the answer is 500.
C4_Witness ==
    \E h \in Handlers :
        /\ Answered(h)
        /\ path \in DOMAIN state /\ state[path] = threshold + 1
        /\ threshold > 0 /\ ~override
        /\ handler[h].resp.status = 500

\* C5: whenever the cached bytes for the configured path are non-zero and
\* either at most the threshold or override is set, GET / answers 200 and
\* the body shows the path, the bytes and the override flag.
C5_OK ==
    \A h \in Handlers :
        (/\ Answered(h)
         /\ path \in DOMAIN state
         /\ state[path] # 0 /\ (state[path] <= threshold \/ override)) =>
            /\ handler[h].resp.status = 200
            /\ path \in Tokens(handler[h].resp.body)
            /\ state[path] \in Numbers(handler[h].resp.body)
            /\ (IF override THEN "true" ELSE "false") \in Tokens(handler[h].resp.body)
            /\ (IF override THEN "false" ELSE "true") \notin Tokens(handler[h].resp.body)

\* The table holds threshold + 1 with override set, and the answer is 200.
C5_Witness ==
    \E h \in Handlers :
        /\ Answered(h)
        /\ path \in DOMAIN state /\ state[path] = threshold + 1
        /\ threshold > 0 /\ override
        /\ handler[h].resp.status = 200

\* C6: every failed poll adds one to the task's errCount and nothing resets
\* it, so the errCount of a task equals its failures since its last success.
C6_ErrCountCounts ==
    \A r \in TaskIds : tasks[r].errCount = consecFails[r]

\* C7: after k failures in a row the delay Sleep takes from the task is
\* pollInterval + errTimeout * k, which is above pollInterval for k >= 1.
C7_DelayAfterFailures ==
    \A r \in TaskIds :
        /\ SleepDelay(tasks[r].errCount) = pollInterval + errTimeout * consecFails[r]
        /\ consecFails[r] >= 1 => SleepDelay(tasks[r].errCount) > pollInterval

\* The Pollers blocked in their send on the status channel.
Sending == {w \in Workers : poller[w].pc = "status"}

\* C8: the States the loop has received are, in order, those of the polls
\* that succeeded, one each, with the poll's byte count; only the State of
\* a Poller still in its send is outstanding; a failed poll adds none, so
\* the table holds nothing but the result of a successful poll.
C8_OneEventPerSuccess ==
    /\ Len(measured) = polls - failedPolls
    /\ Len(received) + Cardinality(Sending) = Len(measured)
    /\ \A i \in 1..Len(received) : received[i] = State(path, measured[i])
    /\ \A p \in DOMAIN state : \E i \in 1..Len(measured) :
           p = path /\ state[p] = measured[i]

\* A poll succeeded and its State was written; the next poll failed, and
\* the table still holds the first poll's bytes.
C8_Witness ==
    /\ polls = 2 /\ failedPolls = 1
    /\ Len(received) = 1
    /\ path \in DOMAIN state /\ state[path] = measured[1]

\* C9: no read overlaps a write.  While the write lock is held no goroutine
\* holds the read lock; only the loop, at its write, holds the write lock;
\* a handler or logState that reads the table holds the read lock; and
\* what a handler has read is what the table still holds.
C9_NoReadDuringWrite ==
    /\ rw.writer => rw.readers = {}
    /\ rw.writer <=> mon.pc \in {"write", "unlock"}
    /\ \A h \in Handlers :
           handler[h].pc \in {"read", "return"} <=> HandlerId(h) \in rw.readers
    /\ mon.pc \in {"range", "logReturn"} <=> MonitorId \in rw.readers
    /\ \A h \in Handlers :
           Answered(h) => handler[h].bytes = MapGet(state, path)
    /\ mon.pc = "logReturn" => logged = state

\* Two handlers hold the read lock while the loop, with its second State in
\* hand, waits for the write lock.
C9_Witness ==
    /\ Cardinality({h \in Handlers : HandlerId(h) \in rw.readers}) >= 2
    /\ mon.pc = "lockWait"
    /\ Len(received) = 2

\* C10: once a State for the configured path has been written to the table,
\* whatever its bytes, no GET / answers 503.
C10_No503OnceRecorded ==
    \A h \in Handlers :
        Answered(h) /\ path \in DOMAIN state => handler[h].resp.status # 503

\* C11: GET / depends on the table and the flags alone.  Two handlers that
\* have answered at the same moment have written the same status and the
\* same body, and a handler answers exactly what the last request before
\* it was sent, as long as the table has not changed in between.
C11_SameAnswer ==
    \A h \in Handlers :
        Answered(h) =>
            /\ served # NoResp => handler[h].resp = served
            /\ \A g \in Handlers : Answered(g) => handler[g].resp = handler[h].resp

\* A request was answered 500; with the table unchanged two more requests
\* are answered at the same moment.
C11_Witness ==
    /\ served # NoResp /\ served.status = 500
    /\ \A h \in Handlers : Answered(h)

\* C12: without a -threshold flag the threshold is 107,400,000,000, that
\* is 1.074 x 10^11.
C12_DefaultThreshold ==
    threshold0 = <<"1", "0", "7", "4", "0", "0", "0", "0", "0", "0", "0", "0">>

\* The goroutines that hold Path r: the seeding goroutine before its send
\* is taken (it holds Path 1), the Pollers, the Sleep goroutines.
Holders(r) ==
    (IF seed = "send" /\ r = 1 THEN 1 ELSE 0)
    + Cardinality({w \in Workers : poller[w].r = r})
    + Cardinality({sl \in sleepers : sl.r = r})

\* C13: there is one Path, for the configured path, and in every state one
\* goroutine holds it: the seeding goroutine or a Sleep goroutine handing
\* it over on pending, or one Poller that polls it, sends its State or
\* hands it over on complete.  A Poller holds a Path exactly between its
\* receive and its hand-over, and no two Pollers poll at once, however many
\* workers there are.
C13_OneHolder ==
    /\ DOMAIN tasks = TaskIds
    /\ \A r \in TaskIds : tasks[r].path = path /\ Holders(r) = 1
    /\ \A w \in Workers :
           poller[w].r # NoTask <=> poller[w].pc \in {"poll", "status", "complete"}
    /\ Cardinality({w \in Workers : poller[w].pc = "poll"}) <= 1

\* With two workers, the first has polled the Path and the second holds it
\* for the next poll.
C13_Witness ==
    /\ Cardinality(Workers) = 2
    /\ polls = 1
    /\ poller[2].pc = "poll" /\ poller[1].pc = "recv"
    /\ sleepers = {} /\ seed = "done"

\* C14: under fair scheduling, with every call of du returning, the Path
\* is polled again and again once the server listens: the count of polls
\* reaches every number the model lets it reach.
C14_PolledForever == (http = "serving") ~> (polls = MaxPolls)

\* C15: a Poller that is past a successful Poll holds the byte count du
\* printed, and the Path's errCount is 0 whatever it was when Poll was
\* called; so the delay a Sleep goroutine takes after a successful poll is
\* pollInterval.
C15_SuccessResets ==
    /\ \A w \in Workers :
           poller[w].pc \in {"status", "complete"} =>
               /\ tasks[poller[w].r].errCount = 0
               /\ Len(measured) > 0
               /\ poller[w].bytes = measured[Len(measured)]
    /\ \A sl \in sleepers :
           sl.pc \in {"sleeping", "send"} => sl.delay = pollInterval

\* The Path came with the largest errCount, its poll succeeded with a
\* count above zero, and its Sleep goroutine sleeps for pollInterval.
C15_Witness ==
    /\ initErr = MaxErrCount
    /\ failedPolls = 0 /\ polls = 1
    /\ measured = <<MaxBytes>>
    /\ \E sl \in sleepers : sl.pc = "sleeping" /\ sl.delay = pollInterval

\* C16: a step changes the table only if it is the loop's write of the
\* State it received, under the write lock, and the change is that one
\* entry; every other step (logState, a GET /, a poll, a sleep, a hand-over
\* on pending or complete) leaves the table as it is.  The loop takes up a
\* tick or a State only from its select, when it has finished with the
\* trigger before.
C16_OnlyUpdateWrites ==
    [][ /\ state' # state =>
              /\ mon.pc = "write" /\ mon'.pc = "unlock"
              /\ rw.writer /\ rw.readers = {}
              /\ state' = MapSet(state, mon.s.path, mon.s.bytes)
        /\ Len(received') > Len(received) =>
              /\ mon.pc = "select"
              /\ mon' = [pc |-> "lock", s |-> received'[Len(received')]]
        /\ (mon'.pc = "logState" /\ mon.pc # "logState") => mon.pc = "select"
        /\ mon.pc # "select" => received' = received
      ]_vars

\* The table holds a count; logState is printing it, a handler is reading
\* it and a Sleep goroutine is sleeping, all at once.
C16_Witness ==
    /\ path \in DOMAIN state
    /\ mon.pc = "range"
    /\ \E h \in Handlers : handler[h].pc = "read"
    /\ \E sl \in sleepers : sl.pc = "sleeping"

\* The tasks that are past their hand-over on complete: those of the Sleep
\* goroutines.
Sleeping == {sl.r : sl \in sleepers}
\* The configured path's entry is the bytes of the last poll that succeeded.
LastStored == MapGet(state, path) = measured[Len(measured)]

\* C17: when a Poller is at its hand-over on complete, or a Sleep goroutine
\* holds the task (before, in or after its sleep, up to its send on
\* pending), the loop has received the State of every successful poll, the
\* last of them being that of the task's last poll; the loop holds at most
\* the last State received as not yet written; and once the loop is past
\* its write the table holds that poll's bytes for the path.
C17_ReceivedBeforeHandOver ==
    /\ mon.pc \in {"lock", "lockWait", "write", "unlock"} =>
           /\ Len(received) > 0
           /\ mon.s = received[Len(received)]
    /\ \A w \in Workers : poller[w].pc = "complete" =>
           /\ Len(measured) > 0 /\ Len(received) = Len(measured)
           /\ received[Len(received)] =
                  State(tasks[poller[w].r].path, poller[w].bytes)
    /\ \A r \in Sleeping :
           /\ Len(measured) > 0 /\ Len(received) = Len(measured)
           /\ received[Len(received)] =
                  State(tasks[r].path, measured[Len(measured)])
           /\ mon.pc \notin {"lock", "lockWait", "write"} => LastStored

\* The second poll measured another count than the first; its State has
\* been written, and the task sleeps.
C17_Witness ==
    /\ Len(measured) = 2 /\ measured[1] # measured[2]
    /\ mon.pc = "select"
    /\ LastStored
    /\ \E sl \in sleepers : sl.pc = "sleeping"

\* C18: with the server listening and handlers taking the read lock at
\* any time, a State the loop has received is written and the write lock
\* released: the readers do not starve the writer.
C18_WriterNotStarved ==
    (mon.pc = "lock" /\ http = "serving") ~> (mon.pc = "unlock")

\* The loop waits in Lock() with the last State received while every
\* handler holds the read lock, one of them with its answer ready.
C18_Witness ==
    /\ http = "serving"
    /\ mon.pc = "lockWait" /\ rw.pending
    /\ Len(received) = MaxEvents
    /\ \A h \in Handlers : HandlerId(h) \in rw.readers
    /\ \E h \in Handlers : Answered(h)

\* C19: a poll that has started comes to its end, with its bytes or with
\* an error, unless the process has ended, even if du does not return.
C19_PollEnds ==
    \A w \in Pollers :
        (poller[w].pc = "poll" /\ polls < MaxPolls)
            ~> (poller[w].pc # "poll" \/ ~running)

\* C20 as stated: a goroutine at its send on pending can complete it at
\* once, whether or not a Poller is at its receive; a send completes only
\* in a step with a receiver, so a Poller is at its receive whenever a
\* goroutine is at its send.
C20_PushNeverWaits ==
    running =>
        /\ seed = "send" => \E w \in Workers : poller[w].pc = "recv"
        /\ \A sl \in sleepers :
               sl.pc = "send" => \E w \in Workers : poller[w].pc = "recv"

\* C20 amended: pending and complete hold nothing.  A send on pending
\* completes in the very step in which a Poller at its receive takes the
\* Path, and the sender waits until then; a Poller's send on complete
\* completes in the step in which main starts the Sleep goroutine for the
\* Path.
C20_PushMeetsReceiver ==
    [][ /\ (seed = "send" /\ seed' = "done") =>
              \E w \in Workers :
                  /\ poller[w].pc = "recv"
                  /\ poller'[w] = [pc |-> "poll", r |-> 1, bytes |-> 0]
        /\ \A sl \in sleepers :
              (sl.pc = "send" /\ sl \notin sleepers') =>
                  \E w \in Workers :
                      /\ poller[w].pc = "recv"
                      /\ poller'[w] = [pc |-> "poll", r |-> sl.r, bytes |-> 0]
        /\ \A w \in Workers :
              (poller[w].pc = "complete" /\ poller'[w].pc # "complete") =>
                  /\ poller'[w].pc = "recv"
                  /\ \E sl \in sleepers' \ sleepers :
                         sl.r = poller[w].r /\ sl.pc = "start"
      ]_vars

\* A Sleep goroutine has handed the Path back on pending and the Poller
\* has it for its second poll, the seeding goroutine being long done.
C20_Witness ==
    /\ seed = "done" /\ sleepers = {}
    /\ polls = 1 /\ failedPolls = 0
    /\ \E w \in Workers : poller[w].pc = "poll" /\ poller[w].r = 1

=============================================================================
